---- MODULE Spec2Model ----
(***************************************************************************)
(* PyCommander: role-gated REST backend of a restaurant point of sale.     *)
(* The model covers the order lifecycle (src/Routes/order_route.py), the   *)
(* credential and token service (src/Routes/auth_route.py), the            *)
(* authorization gate (src/utils/security_utils.py) and the MariaDB tables *)
(* they read and write (src/database/DB.py and src/database/repositorys).  *)
(*                                                                         *)
(* A request runs to completion as one step, except in the specifications  *)
(* of concurrent requests, where every repository call is a step of its    *)
(* own.  Money is kept in exact                                            *)
(* decimal arithmetic: a DECIMAL(10,2) value is an integer count of        *)
(* hundredths, the scale-4 result of calc_total an integer count of        *)
(* ten-thousandths.  Free-text columns that no handler branches on (name,  *)
(* note, description, category) and the wall-clock values are left out.    *)
(***************************************************************************)
EXTENDS Integers, FiniteSets, Sequences, TLC

VARIABLES
    users,          \* table User: rows [id, username, email, password, salt, role, active]
    nextUserId,     \* AUTO_INCREMENT counter of table User
    jwtList,        \* table JWTList (the allow-list): rows [user_id, jti]
    refreshTokens,  \* refresh tokens minted so far: [jti, sub, user_id]
    accessTokens,   \* subjects (usernames) of the access tokens minted so far
    orders,         \* table RestaurantOrder
    history,        \* table OrderStatusHistory
    items,          \* table OrderItem
    stock,          \* column Product.Stock, by product id
    now,            \* datetime.now(), in days since the service started
    inflight,       \* requests being served step by step: [route, pc, ...]
    last            \* the request just served and its response

vars == <<users, nextUserId, jwtList, refreshTokens, accessTokens,
          orders, history, items, stock, now, inflight, last>>

authVars  == <<users, nextUserId, jwtList, refreshTokens, accessTokens>>
orderVars == <<orders, history, items, stock>>

-----------------------------------------------------------------------------
(* Bounds of the model *)

MaxRows   == 3      \* rows held by RestaurantOrder and OrderItem together
MaxUsers  == 2      \* ids handed out by table User
MaxLogins == 2      \* refresh tokens minted

-----------------------------------------------------------------------------
(* Values *)

NullNum == -1               \* SQL NULL / Python None in a numeric position
NullStr == "NULL"           \* SQL NULL / Python None / absent JSON field (text)

Roles          == {"Admin", "Waiter", "Cook", "Cashier"}
PaymentMethods == {"Cash", "Card"}

OK           == 200
UNAUTHORIZED == 401
FORBIDDEN    == 403
NOT_FOUND    == 404
CONFLICT     == 409
INTERNAL_SERVER_ERROR == 500

\* The catalog.  Product.Price and ProductPerKg.Weight / PricePerKg are
\* DECIMAL(10,2): hundredths.
ProductIds      == {1}
ProductPrice    == (1 :> 1000)
ProductPerKgIds == {1}
ProductPerKg    == (1 :> [weight |-> 35, price_per_kg |-> 4590])
InitialStock    == (1 :> 5)

\* Inputs of the order routes
OrderNumbers == {1, 2}
Quantities   == {1, 2}

ItemBody(product_id, product_per_kg_id, quantity) ==
    [product_id |-> product_id, product_per_kg_id |-> product_per_kg_id,
     quantity |-> quantity]

\* request bodies of /order/add_item: every valid one, and one of each
\* rejected shape (id 9 names no catalog row)
AddItemBodies ==
    {ItemBody(p, NullNum, q) : p \in ProductIds, q \in Quantities}
    \cup {ItemBody(NullNum, k, q) : k \in ProductPerKgIds, q \in Quantities}
    \cup {ItemBody(1, 1, 1), ItemBody(NullNum, NullNum, 1),
          ItemBody(9, NullNum, 1), ItemBody(NullNum, 9, 1)}

-----------------------------------------------------------------------------
(* Authorization gate *)

select_by_username(username) == {u \in users : u.username = username}

\* a gate that looks the user up but skips the role test
RoleGate_any_role(sub, required_roles) ==
    IF select_by_username(sub) = {} THEN NOT_FOUND ELSE OK

\* role_required(db, required_roles): the answer of the wrapper to a valid
\* access token whose subject is sub
RoleGate(sub, required_roles) ==
    IF select_by_username(sub) = {} THEN NOT_FOUND
    ELSE LET current_user == CHOOSE u \in select_by_username(sub) : TRUE
         IN  IF current_user.role \notin required_roles THEN FORBIDDEN ELSE OK

GateMsg(code) == IF code = NOT_FOUND THEN "User not found" ELSE "Access denied"

\* role lists that name every role on every route
AllowedRoles_everyone(route) == Roles

\* required_roles of every gated route
AllowedRoles(route) ==
    CASE route \in {"checkin", "checkout", "add_item", "total"}
            -> {"Admin", "Cashier", "Waiter"}
      [] route \in {"items", "open_orders", "closed_orders"}
            -> {"Admin", "Cashier", "Waiter", "Cook"}
      [] route \in {"register", "edit", "delete", "get"}
            -> {"Admin"}

\* The request just served and its response: route, token subject (for
\* login the username given), main argument, rest of the body, status,
\* message, returned value, and whether the wrapped handler ran.
Response(route, sub, arg, body, status, msg, val, ran) ==
    [route |-> route, sub |-> sub, arg |-> arg, body |-> body,
     status |-> status, msg |-> msg, val |-> val, ran |-> ran]

Denied(route, sub, arg, body) ==
    LET code == RoleGate(sub, AllowedRoles(route))
    IN  Response(route, sub, arg, body, code, GateMsg(code), NullNum, FALSE)

Admitted(route, sub) == RoleGate(sub, AllowedRoles(route)) = OK

-----------------------------------------------------------------------------
(* RestaurantOrderRepository *)

\* a lookup by number without the Status = 'Open' filter
select_by_number_open_any(number) == {o \in orders : o.number = number}

select_by_number_open(number) ==
    {o \in orders : o.number = number /\ o.status = "Open"}

\* an exists test that counts only the open orders that have a history row
exists_number_open_with_history(number) ==
    \E o \in orders :
       /\ o.number = number
       /\ o.status = "Open"
       /\ \E h \in history : h.restaurant_order_id = o.id

\* an existence test that never finds an open order
exists_number_open_never(number) == FALSE

\* an existence test without the Status = 'Open' filter
exists_number_open_any_status(number) == \E o \in orders : o.number = number

exists_number_open(number) ==
    \E o \in orders : o.number = number /\ o.status = "Open"

FixedItems(order_id) ==
    {it \in items : it.restaurant_order_id = order_id /\ it.product_id # NullNum}

PerKgItems(order_id) ==
    {it \in items : it.restaurant_order_id = order_id /\ it.product_per_kg_id # NullNum}

\* OrderItem.Quantity * Product.Price, scale 2
FixedLine(it) == it.quantity * ProductPrice[it.product_id]

\* OrderItem.Quantity * ProductPerKg.PricePerKg * ProductPerKg.Weight, scale 4
PerKgLine(it) ==
    it.quantity * ProductPerKg[it.product_per_kg_id].price_per_kg
                * ProductPerKg[it.product_per_kg_id].weight

RECURSIVE AddFixed(_)
AddFixed(S) ==
    IF S = {} THEN 0
    ELSE LET it == CHOOSE x \in S : TRUE IN FixedLine(it) + AddFixed(S \ {it})

RECURSIVE AddPerKg(_)
AddPerKg(S) ==
    IF S = {} THEN 0
    ELSE LET it == CHOOSE x \in S : TRUE IN PerKgLine(it) + AddPerKg(S \ {it})

\* SQL SUM(): NULL over no rows
SumFixed(order_id) ==
    IF FixedItems(order_id) = {} THEN NullNum ELSE AddFixed(FixedItems(order_id))

SumPerKg(order_id) ==
    IF PerKgItems(order_id) = {} THEN NullNum ELSE AddPerKg(PerKgItems(order_id))

\* SQL "+" of the scale-2 sum and the scale-4 sum: NULL if either is NULL,
\* else a scale-4 decimal
SqlTotal(order_id) ==
    IF SumFixed(order_id) = NullNum \/ SumPerKg(order_id) = NullNum
    THEN NullNum
    ELSE SumFixed(order_id) * 100 + SumPerKg(order_id)

\* a calc_total that hands the SQL NULL on instead of 0
calc_total_null(order_id) == SqlTotal(order_id)

\* calc_total: row[0] if row[0] is not None else 0   (ten-thousandths)
calc_total(order_id) ==
    IF SqlTotal(order_id) # NullNum THEN SqlTotal(order_id) ELSE 0

\* a scale-4 decimal written to column Total_Amount DECIMAL(10,2): MariaDB
\* rounds it half away from zero to hundredths
StoreTotalAmount(total) == (total + 50) \div 100

OrderRows == Cardinality(orders) + Cardinality(items)

-----------------------------------------------------------------------------
(* Order routes *)

\* an order row that is born paid
NewOrder_paid(number) ==
    [id |-> Cardinality(orders) + 1, number |-> number, status |-> "Open",
     payment_method |-> NullStr, total_amount |-> 0, paid |-> TRUE,
     entry_time |-> now, exit_time |-> NullStr]

NewOrder(number) ==
    [id |-> Cardinality(orders) + 1, number |-> number, status |-> "Open",
     payment_method |-> NullStr, total_amount |-> 0, paid |-> FALSE,
     entry_time |-> now, exit_time |-> NullStr]

\* POST /order/checkin
checkin(sub, number, okOrder, okHistory) ==
    /\ sub \in accessTokens
    /\ UNCHANGED <<authVars, items, stock, now, inflight>>
    /\ IF ~Admitted("checkin", sub)
       THEN /\ last' = Denied("checkin", sub, number, NullStr)
            /\ UNCHANGED <<orders, history>>
       ELSE IF exists_number_open(number)
       THEN /\ last' = Response("checkin", sub, number, NullStr, CONFLICT,
                        "Order number already exists and is currently open.",
                        NullNum, TRUE)
            /\ UNCHANGED <<orders, history>>
       ELSE /\ OrderRows < MaxRows
            /\ IF okOrder
               THEN /\ orders' = orders \cup {NewOrder(number)}
                    /\ IF okHistory
                       THEN /\ history' = history \cup
                                 {[id |-> Cardinality(history) + 1,
                                   restaurant_order_id |-> NewOrder(number).id,
                                   status |-> "Open", note |-> "Created"]}
                            /\ last' = Response("checkin", sub, number, NullStr, OK,
                                        "check in successfully.",
                                        NewOrder(number).id, TRUE)
                       ELSE /\ UNCHANGED history
                            /\ last' = Response("checkin", sub, number, NullStr,
                                        INTERNAL_SERVER_ERROR,
                                        "Failed to create the order.", NullNum, TRUE)
               ELSE /\ UNCHANGED <<orders, history>>
                    /\ last' = Response("checkin", sub, number, NullStr,
                                INTERNAL_SERVER_ERROR,
                                "Failed to create the order.", NullNum, TRUE)

\* POST /order/checkout
checkout(sub, number, payment_method, okUpdate) ==
    /\ sub \in accessTokens
    /\ UNCHANGED <<authVars, history, items, stock, now, inflight>>
    /\ IF ~Admitted("checkout", sub)
       THEN /\ last' = Denied("checkout", sub, number, payment_method)
            /\ UNCHANGED orders
       ELSE IF select_by_number_open(number) = {}
       THEN /\ last' = Response("checkout", sub, number, payment_method,
                        NOT_FOUND, "order number not found", NullNum, TRUE)
            /\ UNCHANGED orders
       ELSE \E r_order \in select_by_number_open(number) :
            LET closed == [r_order EXCEPT
                             !.payment_method = payment_method,
                             !.status = "Closed",
                             !.exit_time = "now",
                             !.paid = TRUE,
                             !.total_amount = StoreTotalAmount(calc_total(r_order.id))]
            IN  IF okUpdate
                THEN /\ orders' = (orders \ {r_order}) \cup {closed}
                     /\ last' = Response("checkout", sub, number, payment_method,
                                 OK, "Checkout successfully", r_order.id, TRUE)
                ELSE /\ UNCHANGED orders
                     /\ last' = Response("checkout", sub, number, payment_method,
                                 INTERNAL_SERVER_ERROR, "Checkout error",
                                 r_order.id, TRUE)

NewItem(order_id, body) ==
    [id |-> Cardinality(items) + 1, restaurant_order_id |-> order_id,
     product_id |-> body.product_id,
     product_per_kg_id |-> body.product_per_kg_id,
     quantity |-> body.quantity]

\* a test that catches only the body that names neither product
BothOrNeither_only_neither(body) ==
    body.product_id = NullNum /\ body.product_per_kg_id = NullNum

\* (product_id is not None and product_per_kg_id is not None)
\*   or (product_id is None and product_per_kg_id is None)
BothOrNeither(body) ==
    \/ (body.product_id # NullNum /\ body.product_per_kg_id # NullNum)
    \/ (body.product_id = NullNum /\ body.product_per_kg_id = NullNum)

\* POST /order/add_item
add_item(sub, number, body, okItem, okProduct) ==
    /\ sub \in accessTokens
    /\ UNCHANGED <<authVars, orders, history, now, inflight>>
    /\ IF ~Admitted("add_item", sub)
       THEN /\ last' = Denied("add_item", sub, number, body)
            /\ UNCHANGED <<items, stock>>
       ELSE IF select_by_number_open(number) = {}
       THEN /\ last' = Response("add_item", sub, number, body, NOT_FOUND,
                        "order number not found", NullNum, TRUE)
            /\ UNCHANGED <<items, stock>>
       ELSE IF BothOrNeither(body)
       THEN /\ last' = Response("add_item", sub, number, body, CONFLICT,
                        "Either 'product_id' or 'product_per_kg_id' must be provided, but not both.",
                        NullNum, TRUE)
            /\ UNCHANGED <<items, stock>>
       ELSE IF body.product_id # NullNum
       THEN IF body.product_id \notin ProductIds
            THEN /\ last' = Response("add_item", sub, number, body, NOT_FOUND,
                             "product not found", NullNum, TRUE)
                 /\ UNCHANGED <<items, stock>>
            ELSE \E r_order \in select_by_number_open(number) :
                 /\ OrderRows < MaxRows
                 /\ IF okItem
                    THEN /\ items' = items \cup {NewItem(r_order.id, body)}
                         /\ IF okProduct
                            THEN /\ stock' = [stock EXCEPT
                                                ![body.product_id] = @ - body.quantity]
                                 /\ last' = Response("add_item", sub, number, body, OK,
                                             "Product added successfully and product updated",
                                             Cardinality(items) + 1, TRUE)
                            ELSE /\ UNCHANGED stock
                                 /\ last' = Response("add_item", sub, number, body, OK,
                                             "Product added successfully",
                                             Cardinality(items) + 1, TRUE)
                    ELSE /\ UNCHANGED <<items, stock>>
                         /\ last' = Response("add_item", sub, number, body,
                                     INTERNAL_SERVER_ERROR,
                                     "Failed to create the order item.", NullNum, TRUE)
       ELSE IF body.product_per_kg_id \notin ProductPerKgIds
            THEN /\ last' = Response("add_item", sub, number, body, NOT_FOUND,
                             "product per kg not found", NullNum, TRUE)
                 /\ UNCHANGED <<items, stock>>
            ELSE \E r_order \in select_by_number_open(number) :
                 /\ OrderRows < MaxRows
                 /\ UNCHANGED stock
                 /\ IF okItem
                    THEN /\ items' = items \cup {NewItem(r_order.id, body)}
                         /\ last' = Response("add_item", sub, number, body, OK,
                                     "Product per kg added successfully",
                                     Cardinality(items) + 1, TRUE)
                    ELSE /\ UNCHANGED items
                         /\ last' = Response("add_item", sub, number, body,
                                     INTERNAL_SERVER_ERROR,
                                     "Failed to create the order item.", NullNum, TRUE)

\* GET /order/total
get_total(sub, number) ==
    /\ sub \in accessTokens
    /\ UNCHANGED <<authVars, orderVars, now, inflight>>
    /\ IF ~Admitted("total", sub)
       THEN last' = Denied("total", sub, number, NullStr)
       ELSE IF select_by_number_open(number) = {}
       THEN last' = Response("total", sub, number, NullStr, NOT_FOUND,
                     "order number not found", NullNum, TRUE)
       ELSE \E r_order \in select_by_number_open(number) :
            last' = Response("total", sub, number, NullStr, OK,
                     "Success to retrieve order total", calc_total(r_order.id), TRUE)

\* GET /order/items
get_order_items(sub, number) ==
    /\ sub \in accessTokens
    /\ UNCHANGED <<authVars, orderVars, now, inflight>>
    /\ IF ~Admitted("items", sub)
       THEN last' = Denied("items", sub, number, NullStr)
       ELSE IF select_by_number_open(number) = {}
       THEN last' = Response("items", sub, number, NullStr, NOT_FOUND,
                     "order number not found", NullNum, TRUE)
       ELSE \E r_order \in select_by_number_open(number) :
            last' = Response("items", sub, number, NullStr, OK,
                     "All order items", calc_total(r_order.id), TRUE)

\* GET /order/open_orders
get_order_open_orders(sub) ==
    /\ sub \in accessTokens
    /\ UNCHANGED <<authVars, orderVars, now, inflight>>
    /\ IF ~Admitted("open_orders", sub)
       THEN last' = Denied("open_orders", sub, NullNum, NullStr)
       ELSE last' = Response("open_orders", sub, NullNum, NullStr, OK, "products",
                     Cardinality({o \in orders : o.status = "Open"}), TRUE)

\* GET /order/closed_orders
get_order_close_orders(sub) ==
    /\ sub \in accessTokens
    /\ UNCHANGED <<authVars, orderVars, now, inflight>>
    /\ IF ~Admitted("closed_orders", sub)
       THEN last' = Denied("closed_orders", sub, NullNum, NullStr)
       ELSE last' = Response("closed_orders", sub, NullNum, NullStr, OK, "products",
                     Cardinality({o \in orders : o.status = "Closed"}), TRUE)

-----------------------------------------------------------------------------
(* Users, passwords and tokens *)

User(id, username, email, password, role, active) ==
    [id |-> id, username |-> username, email |-> email, password |-> password,
     salt |-> 0, role |-> role, active |-> active]

\* Inputs of the auth routes
Usernames == {"admin", "ana", "bob", "zed"}
Emails    == {"admin@x.io", "staff@x.io"}
Passwords == {"adminpw1", "secret22"}
UserRoles == {"Admin", "Waiter", "Cook"}

\* request.json.get(key, default)
Get(value, default) == IF value = NullStr THEN default ELSE value

\* generate_bcrypt_hash draws a fresh salt: the hash is the password with a
\* salt that differs from the salt of the hash it replaces;
\* verify_bcrypt_password accepts exactly the password that was hashed
\* a verification that accepts any password
verify_bcrypt_password_any(plain_password, user) == TRUE

verify_bcrypt_password(plain_password, user) == plain_password = user.password

-----------------------------------------------------------------------------
(* UserRepository and JWTListRepository *)

\* a username test that never finds the name taken
user_name_exists_never(username) == FALSE

user_name_exists(username) == \E u \in users : u.username = username

email_exists(email) == \E u \in users : u.email = email

\* an UPDATE on a table without the UNIQUE constraints
UpdateAllowed_any(user) == TRUE

\* UNIQUE(Username), UNIQUE(Email) on UPDATE ... WHERE ID = user.id
UpdateAllowed(user) ==
    \A u \in users :
        u.id # user.id => u.username # user.username /\ u.email # user.email

\* DELETE FROM User WHERE ID = ?: refused while a JWTList row references
\* the user (CONSTRAINT fk_user, no ON DELETE action)
DeleteAllowed(user_id) == \A r \in jwtList : r.user_id # user_id

\* an allow-list test that accepts every token
exists_by_jti_always(jti) == TRUE

exists_by_jti(jti) == \E r \in jwtList : r.jti = jti

\* a DELETE that removes no row
delete_by_user_id_nothing(table, user_id) == table

delete_by_user_id(table, user_id) == {r \in table : r.user_id # user_id}

\* an INSERT into a table without PRIMARY KEY (user_id) and UNIQUE (jti)
jwt_insert_no_key(table, jwt_item) == table \cup {jwt_item}

\* INSERT INTO JWTList: user_id is the PRIMARY KEY, jti is UNIQUE
jwt_insert(table, jwt_item) ==
    IF \E r \in table : r.user_id = jwt_item.user_id \/ r.jti = jwt_item.jti
    THEN table
    ELSE table \cup {jwt_item}

-----------------------------------------------------------------------------
(* Auth routes *)

WrongLogin(username, password) ==
    Response("login", username, password, NullStr, UNAUTHORIZED,
             "Wrong username or password", NullNum, TRUE)

\* POST /auth/login
login(username, password, okDelete, okInsert) ==
    /\ UNCHANGED <<users, nextUserId, orderVars, now, inflight>>
    /\ IF select_by_username(username) = {}
       THEN /\ last' = WrongLogin(username, password)
            /\ UNCHANGED <<jwtList, refreshTokens, accessTokens>>
       ELSE LET temp_user == CHOOSE u \in select_by_username(username) : TRUE
                refresh_token == Cardinality(refreshTokens) + 1
                jwt_item == [user_id |-> temp_user.id, jti |-> refresh_token]
                deleted == IF okDelete
                           THEN delete_by_user_id(jwtList, temp_user.id)
                           ELSE jwtList
            IN  IF temp_user.active /\ verify_bcrypt_password(password, temp_user)
                THEN /\ Cardinality(refreshTokens) < MaxLogins
                     /\ accessTokens' = accessTokens \cup {username}
                     /\ refreshTokens' = refreshTokens \cup
                            {[jti |-> refresh_token, sub |-> username,
                              user_id |-> temp_user.id]}
                     /\ jwtList' = IF okInsert THEN jwt_insert(deleted, jwt_item)
                                   ELSE deleted
                     /\ last' = Response("login", username, password, NullStr, OK,
                                  "", refresh_token, TRUE)
                ELSE /\ last' = WrongLogin(username, password)
                     /\ UNCHANGED <<jwtList, refreshTokens, accessTokens>>

\* POST /auth/refresh, bearing an unexpired refresh token
refresh(token) ==
    /\ token \in refreshTokens
    /\ UNCHANGED <<users, nextUserId, jwtList, refreshTokens, orderVars, now, inflight>>
    /\ IF ~exists_by_jti(token.jti)
       THEN /\ last' = Response("refresh", token.sub, NullStr, NullStr, UNAUTHORIZED,
                         "Invalid or expired token. Please log in again.",
                         token.jti, TRUE)
            /\ UNCHANGED accessTokens
       ELSE /\ accessTokens' = accessTokens \cup {token.sub}
            /\ last' = Response("refresh", token.sub, NullStr, NullStr, OK, "",
                         token.jti, TRUE)

RegisterBodies ==
    [email : Emails, password : {"secret22"}, active : BOOLEAN, user_role : UserRoles]

\* POST /auth/register
register_user(sub, username, body, okInsert) ==
    /\ sub \in accessTokens
    /\ UNCHANGED <<jwtList, refreshTokens, accessTokens, orderVars, now, inflight>>
    /\ IF ~Admitted("register", sub)
       THEN /\ last' = Denied("register", sub, username, body)
            /\ UNCHANGED <<users, nextUserId>>
       ELSE IF user_name_exists(username)
       THEN /\ last' = Response("register", sub, username, body, CONFLICT,
                         "Username already exists.", NullNum, TRUE)
            /\ UNCHANGED <<users, nextUserId>>
       ELSE IF email_exists(body.email)
       THEN /\ last' = Response("register", sub, username, body, CONFLICT,
                         "Email already exists.", NullNum, TRUE)
            /\ UNCHANGED <<users, nextUserId>>
       ELSE /\ nextUserId <= MaxUsers
            /\ IF okInsert
               THEN /\ users' = users \cup
                         {User(nextUserId, username, body.email, body.password,
                               body.user_role, body.active)}
                    /\ nextUserId' = nextUserId + 1
                    /\ last' = Response("register", sub, username, body, OK,
                                 "User registered successfully.", nextUserId, TRUE)
               ELSE /\ UNCHANGED <<users, nextUserId>>
                    /\ last' = Response("register", sub, username, body,
                                 INTERNAL_SERVER_ERROR, "User registration failed.",
                                 NullNum, TRUE)

EditBody(new_username, email, password, active, user_role) ==
    [new_username |-> new_username, email |-> email, password |-> password,
     active |-> active, user_role |-> user_role]

\* request bodies of /auth/edit that touch the credentials: no field, a new
\* username, a new password
CredentialEdits ==
    {EditBody(NullStr, NullStr, NullStr, NullStr, NullStr)}
    \cup {EditBody(n, NullStr, NullStr, NullStr, NullStr) : n \in {"ana", "zed"}}
    \cup {EditBody(NullStr, NullStr, "secret22", NullStr, NullStr)}

\* request bodies of /auth/edit that touch the profile: email, active, role
ProfileEdits ==
    {EditBody(NullStr, e, NullStr, NullStr, NullStr) : e \in Emails}
    \cup {EditBody(NullStr, NullStr, NullStr, a, NullStr) : a \in {"true", "false"}}
    \cup {EditBody(NullStr, NullStr, NullStr, NullStr, r) : r \in UserRoles}

EditedUser(this_user, body) ==
    [id |-> this_user.id,
     username |-> Get(body.new_username, this_user.username),
     email |-> Get(body.email, this_user.email),
     password |-> Get(body.password, this_user.password),
     salt |-> IF body.password # NullStr THEN 1 - this_user.salt ELSE this_user.salt,
     role |-> Get(body.user_role, this_user.role),
     active |-> IF body.active = NullStr THEN this_user.active
                ELSE body.active = "true"]

CredentialsChanged(this_user, new_user) ==
    \/ this_user.username # new_user.username
    \/ this_user.password # new_user.password
    \/ this_user.salt # new_user.salt

\* POST /auth/edit
edit_user(sub, username, body, okUpdate) ==
    /\ sub \in accessTokens
    /\ UNCHANGED <<nextUserId, refreshTokens, accessTokens, orderVars, now, inflight>>
    /\ IF ~Admitted("edit", sub)
       THEN /\ last' = Denied("edit", sub, username, body)
            /\ UNCHANGED <<users, jwtList>>
       ELSE IF select_by_username(username) = {}
       THEN \* this_user is None: AttributeError, answered by the framework
            /\ last' = Response("edit", sub, username, body, INTERNAL_SERVER_ERROR,
                         "Internal Server Error", NullNum, TRUE)
            /\ UNCHANGED <<users, jwtList>>
       ELSE LET this_user == CHOOSE u \in select_by_username(username) : TRUE
                new_user == EditedUser(this_user, body)
            IN  IF this_user = new_user
                THEN /\ last' = Response("edit", sub, username, body, CONFLICT,
                                  "Update not have any changes.", this_user.id, TRUE)
                     /\ UNCHANGED <<users, jwtList>>
                ELSE IF this_user.email # new_user.email /\ email_exists(new_user.email)
                THEN /\ last' = Response("edit", sub, username, body, CONFLICT,
                                  "Email already exists.", this_user.id, TRUE)
                     /\ UNCHANGED <<users, jwtList>>
                ELSE IF okUpdate /\ UpdateAllowed(new_user)
                THEN /\ users' = (users \ {this_user}) \cup {new_user}
                     /\ UNCHANGED jwtList
                     /\ last' = Response("edit", sub, username, body, OK,
                                  "User edited successfully.", this_user.id, TRUE)
                ELSE /\ UNCHANGED users
                     /\ jwtList' = IF CredentialsChanged(this_user, new_user)
                                   THEN delete_by_user_id(jwtList, this_user.id)
                                   ELSE jwtList
                     /\ last' = Response("edit", sub, username, body,
                                  INTERNAL_SERVER_ERROR, "User edition failed.",
                                  this_user.id, TRUE)

\* DELETE /auth/delete
delete_user(sub, username, okDelete) ==
    /\ sub \in accessTokens
    /\ UNCHANGED <<nextUserId, jwtList, refreshTokens, accessTokens, orderVars, now, inflight>>
    /\ IF ~Admitted("delete", sub)
       THEN /\ last' = Denied("delete", sub, username, NullStr)
            /\ UNCHANGED users
       ELSE IF select_by_username(username) = {}
       THEN /\ last' = Response("delete", sub, username, NullStr, NOT_FOUND,
                         "User not found.", NullNum, TRUE)
            /\ UNCHANGED users
       ELSE LET temp_user == CHOOSE u \in select_by_username(username) : TRUE
            IN  IF okDelete /\ DeleteAllowed(temp_user.id)
                THEN /\ users' = users \ {temp_user}
                     /\ last' = Response("delete", sub, username, NullStr, OK,
                                  "User delete successfully.", temp_user.id, TRUE)
                ELSE /\ UNCHANGED users
                     /\ last' = Response("delete", sub, username, NullStr,
                                  INTERNAL_SERVER_ERROR, "User delete error",
                                  temp_user.id, TRUE)

\* GET /auth/get
get_users(sub) ==
    /\ sub \in accessTokens
    /\ UNCHANGED <<authVars, orderVars, now, inflight>>
    /\ IF ~Admitted("get", sub)
       THEN last' = Denied("get", sub, NullStr, NullStr)
       ELSE last' = Response("get", sub, NullStr, NullStr, OK,
                     "Success retrieve all users", Cardinality(users), TRUE)

-----------------------------------------------------------------------------
(* Specifications *)

NoRequest == Response("none", NullStr, NullNum, NullStr, OK, "", NullNum, FALSE)

EmptyOrderTables ==
    /\ orders = {}
    /\ history = {}
    /\ items = {}
    /\ stock = InitialStock

\* SpecAuth: logins, refreshes and credential edits, from a database that
\* holds the administrator, a waiter and an inactive cook.
InitAuth ==
    /\ users = {User(1, "admin", "admin@x.io", "adminpw1", "Admin", TRUE),
                User(2, "ana", "staff@x.io", "secret22", "Waiter", TRUE),
                User(3, "bob", "bob@x.io", "secret22", "Cook", FALSE)}
    /\ nextUserId = 4
    /\ jwtList = {}
    /\ refreshTokens = {}
    /\ accessTokens = {}
    /\ EmptyOrderTables
    /\ now = 0
    /\ inflight = {}
    /\ last = NoRequest

NextAuth ==
    \/ \E username \in Usernames, password \in Passwords :
          login(username, password, TRUE, TRUE)
    \/ \E token \in refreshTokens : refresh(token)
    \/ \E sub \in accessTokens, username \in {"admin", "ana"}, body \in CredentialEdits :
          edit_user(sub, username, body, TRUE)

SpecAuth == InitAuth /\ [][NextAuth]_vars

\* SpecUsers: the gated routes while accounts are registered, edited and
\* deleted. Access tokens for "admin" and "ana" are outstanding; the account
\* "ana" does not exist yet.
InitUsers ==
    /\ users = {User(1, "admin", "admin@x.io", "adminpw1", "Admin", TRUE)}
    /\ nextUserId = 2
    /\ jwtList = {}
    /\ refreshTokens = {}
    /\ accessTokens = {"admin", "ana"}
    /\ EmptyOrderTables
    /\ now = 0
    /\ inflight = {}
    /\ last = NoRequest

NextUsers ==
    \/ \E sub \in accessTokens, username \in {"admin", "ana"}, body \in RegisterBodies :
          register_user(sub, username, body, TRUE)
    \/ \E sub \in accessTokens, username \in {"admin", "ana"}, body \in ProfileEdits :
          edit_user(sub, username, body, TRUE)
    \/ \E sub \in accessTokens, username \in {"admin", "ana"} :
          delete_user(sub, username, TRUE)
    \/ \E sub \in accessTokens : get_users(sub)
    \/ \E sub \in accessTokens : get_total(sub, 1)
    \/ \E sub \in accessTokens : get_order_open_orders(sub)

SpecUsers == InitUsers /\ [][NextUsers]_vars

\* The staff of the order specifications: one user of every role.
Staff ==
    {User(1, "admin", "admin@x.io", "adminpw1", "Admin", TRUE),
     User(2, "cashier", "cashier@x.io", "secret22", "Cashier", TRUE),
     User(3, "waiter", "waiter@x.io", "secret22", "Waiter", TRUE),
     User(4, "cook", "cook@x.io", "secret22", "Cook", TRUE)}

InitStaff ==
    /\ users = Staff
    /\ nextUserId = 5
    /\ jwtList = {}
    /\ refreshTokens = {}
    /\ EmptyOrderTables
    /\ now = 0
    /\ inflight = {}
    /\ last = NoRequest

\* SpecOrder: the order lifecycle as driven by one admitted caller, the
\* waiter, over both order numbers and every add_item body.
InitOrder == InitStaff /\ accessTokens = {"waiter"}

NextOrder ==
    \/ \E sub \in accessTokens, n \in OrderNumbers :
          checkin(sub, n, TRUE, TRUE)
    \/ \E sub \in accessTokens, n \in OrderNumbers, pm \in PaymentMethods :
          checkout(sub, n, pm, TRUE)
    \/ \E sub \in accessTokens, n \in OrderNumbers, body \in AddItemBodies :
          add_item(sub, n, body, TRUE, TRUE)
    \/ \E sub \in accessTokens, n \in OrderNumbers : get_total(sub, n)
    \/ \E sub \in accessTokens, n \in OrderNumbers : get_order_items(sub, n)

SpecOrder == InitOrder /\ [][NextOrder]_vars

\* SpecGate: the seven order routes called on order number 1 by holders of
\* access tokens of every role, and by "ghost", whose account is gone.
InitGate ==
    InitStaff /\ accessTokens = {"admin", "cashier", "waiter", "cook", "ghost"}

NextGate ==
    \/ \E sub \in accessTokens : checkin(sub, 1, TRUE, TRUE)
    \/ \E sub \in accessTokens : checkout(sub, 1, "Cash", TRUE)
    \/ \E sub \in accessTokens : add_item(sub, 1, ItemBody(1, NullNum, 1), TRUE, TRUE)
    \/ \E sub \in accessTokens : get_total(sub, 1)
    \/ \E sub \in accessTokens : get_order_items(sub, 1)
    \/ \E sub \in accessTokens : get_order_open_orders(sub)
    \/ \E sub \in accessTokens : get_order_close_orders(sub)

SpecGate == InitGate /\ [][NextGate]_vars

-----------------------------------------------------------------------------
(* Order lifecycle: claims C1 - C4, under SpecOrder *)

\* C1: for every Open order, total(order_number) returns the sum of
\* quantity x price over its fixed-price items plus the sum of
\* quantity x weight x price_per_kg over its per-kg items, for orders that
\* hold one kind of item as well as for mixed orders.
C1_TotalIsSumOfItems ==
    (last.route = "total" /\ last.status = OK) =>
        \A o \in orders :
            (o.number = last.arg /\ o.status = "Open") =>
                last.val = AddFixed(FixedItems(o.id)) * 100
                           + AddPerKg(PerKgItems(o.id))

\* C2: after a successful checkout the stored order is Closed, paid, carries
\* the given payment method, and its total_amount equals the value
\* total(order_number) returned immediately before the checkout.
C2_CheckoutStoresTotal ==
    [][(/\ last.route = "total" /\ last.status = OK
        /\ last'.route = "checkout" /\ last'.status = OK
        /\ last'.arg = last.arg)
       => \E o \in orders' :
             /\ o.id = last'.val
             /\ o.status = "Closed"
             /\ o.paid
             /\ o.payment_method = last'.body
             /\ o.total_amount * 100 = last.val]_vars

\* C3: while order number n has been checked out and no new checkin(n) has
\* succeeded, every add_item(n), total(n), checkout(n) and items(n) that
\* reaches its handler answers NotFound and leaves the order rows and the
\* order items as they were.
C3_ClosedOrderIsOutOfReach ==
    [][\A n \in OrderNumbers :
          (/\ \E o \in orders : o.number = n /\ o.status = "Closed"
           /\ ~\E o \in orders : o.number = n /\ o.status = "Open"
           /\ last'.route \in {"add_item", "total", "checkout", "items"}
           /\ last'.arg = n
           /\ last'.ran)
          => (/\ last'.status = NOT_FOUND
              /\ orders' = orders
              /\ items' = items)]_vars

\* an add_item with a valid body was answered NotFound for a number whose
\* only order is Closed and holds items
C3_Witness ==
    /\ last.route = "add_item"
    /\ last.status = NOT_FOUND
    /\ last.body = ItemBody(1, NullNum, 2)
    /\ \E o \in orders :
          /\ o.number = last.arg
          /\ o.status = "Closed"
          /\ \E it \in items : it.restaurant_order_id = o.id
    /\ ~\E o \in orders : o.number = last.arg /\ o.status = "Open"

\* C4: for every order number there is at most one RestaurantOrder with that
\* number and status Open.
C4_AtMostOneOpenPerNumber ==
    \A n \in OrderNumbers :
        Cardinality({o \in orders : o.number = n /\ o.status = "Open"}) <= 1

\* a checkin was refused because its number is open, after an earlier order
\* of the same number was closed
C4_Witness ==
    /\ last.route = "checkin"
    /\ last.status = CONFLICT
    /\ \E o \in orders : o.number = last.arg /\ o.status = "Open"
    /\ \E o \in orders : o.number = last.arg /\ o.status = "Closed"

-----------------------------------------------------------------------------
(* Tokens and credentials: claims C5 - C8, under SpecAuth *)

\* C5: after every successful login the allow-list holds exactly one record
\* for the user who logged in, and it is the record of the refresh token
\* just issued, however many logins of that user came before.
C5_OneRecordPerUserAfterLogin ==
    (last.route = "login" /\ last.status = OK) =>
        \A u \in users :
            u.username = last.sub =>
                {r \in jwtList : r.user_id = u.id}
                    = {[user_id |-> u.id, jti |-> last.val]}

\* a user has just logged in for the second time
C5_Witness ==
    /\ last.route = "login"
    /\ last.status = OK
    /\ \E t \in refreshTokens : t.sub = last.sub /\ t.jti # last.val
    /\ \E r \in jwtList : r.jti = last.val

\* C6: refresh mints an access token only for a refresh token whose jti is in
\* the allow-list; a token R1 of a user who has since logged in again and got
\* R2 is answered Unauthorized and mints nothing, and R2 presented right
\* after its login succeeds.
C6_RefreshOnlyFromAllowList ==
    [][last'.route = "refresh" =>
         /\ (last'.status = OK) <=> (\E r \in jwtList : r.jti = last'.val)
         /\ (last'.status # OK) =>
               (last'.status = UNAUTHORIZED /\ accessTokens' = accessTokens)
         /\ (\E t1, t2 \in refreshTokens :
                /\ t1.user_id = t2.user_id
                /\ t1.jti < t2.jti
                /\ t1.jti = last'.val) => last'.status = UNAUTHORIZED
         /\ (last.route = "login" /\ last.status = OK /\ last'.val = last.val)
               => (last'.status = OK /\ last'.sub \in accessTokens')]_vars

\* R1 was refused although R2, of the same user, is in the allow-list
C6_Witness ==
    /\ last.route = "refresh"
    /\ last.status = UNAUTHORIZED
    /\ \E t1, t2 \in refreshTokens :
          /\ t1.user_id = t2.user_id
          /\ t1.jti = last.val
          /\ t1.jti < t2.jti
          /\ \E r \in jwtList : r.jti = t2.jti

\* C7: after a successful /auth/edit that changes a user's username or
\* password, the allow-list holds no record for that user.
C7_EditRevokesRefreshToken ==
    (/\ last.route = "edit"
     /\ last.status = OK
     /\ (last.body.new_username # NullStr \/ last.body.password # NullStr))
    => ~\E r \in jwtList : r.user_id = last.val

\* C8: a login for a username that does not exist, for an inactive user, or
\* with a wrong password gets one and the same response, status 401 with the
\* same message, issues no token and leaves the allow-list unchanged.
C8_LoginFailuresAreIndistinguishable ==
    [][(/\ last'.route = "login"
        /\ \/ ~\E u \in users : u.username = last'.sub
           \/ \E u \in users : u.username = last'.sub /\ ~u.active
           \/ \E u \in users : u.username = last'.sub /\ u.password # last'.arg)
       => (/\ last'.status = UNAUTHORIZED
           /\ last'.msg = "Wrong username or password"
           /\ last'.val = NullNum
           /\ UNCHANGED <<jwtList, refreshTokens, accessTokens>>)]_vars

\* a wrong password was refused for an active user who holds an allow-list
\* record, while an inactive user and a free username exist
C8_Witness ==
    /\ last.route = "login"
    /\ last.status = UNAUTHORIZED
    /\ \E u \in users :
          /\ u.username = last.sub
          /\ u.active
          /\ u.password # last.arg
          /\ \E r \in jwtList : r.user_id = u.id
    /\ \E u \in users : ~u.active
    /\ \E n \in Usernames : ~\E u \in users : u.username = n

-----------------------------------------------------------------------------
(* Authorization: claim C9 under SpecUsers, claim C10 under SpecGate *)

\* C9: on every role-gated route the wrapped handler runs only if the
\* token's subject names an existing user whose current role is among the
\* route's allowed roles; otherwise the answer is NotFound (no such user) or
\* Forbidden (role not allowed) and no table changes.
C9_GateAdmitsOnlyAllowedRoles ==
    [][last'.route \in {"register", "edit", "delete", "get", "total", "open_orders"} =>
         LET named == {u \in users : u.username = last'.sub}
             allowed == {u \in named : u.role \in AllowedRoles(last'.route)}
         IN  /\ last'.ran => allowed # {}
             /\ named = {} =>
                   (last'.status = NOT_FOUND /\ UNCHANGED <<authVars, orderVars>>)
             /\ (named # {} /\ allowed = {}) =>
                   (last'.status = FORBIDDEN /\ UNCHANGED <<authVars, orderVars>>)]_vars

\* the first administrator, demoted by an edit, is refused on a route it was
\* admitted to before
C9_Witness ==
    /\ last.route = "register"
    /\ last.sub = "admin"
    /\ last.status = FORBIDDEN
    /\ ~last.ran
    /\ \E u \in users : u.id = 1 /\ u.username = "admin" /\ u.role # "Admin"

\* C10: on the order routes a Cook is refused with Forbidden on checkin,
\* add_item, checkout and total and admitted on items, open_orders and
\* closed_orders; an Admin, a Cashier and a Waiter are admitted on all seven.
C10_OrderRouteRoles ==
    \A u \in users :
        (/\ u.username = last.sub
         /\ last.route \in {"checkin", "add_item", "checkout", "total",
                            "items", "open_orders", "closed_orders"})
        => /\ (u.role = "Cook" /\ last.route \in {"checkin", "add_item", "checkout", "total"})
                 => (last.status = FORBIDDEN /\ ~last.ran)
           /\ (u.role = "Cook" /\ last.route \in {"items", "open_orders", "closed_orders"})
                 => (last.status # FORBIDDEN /\ last.ran)
           /\ u.role \in {"Admin", "Cashier", "Waiter"}
                 => (last.status # FORBIDDEN /\ last.ran)

\* the cook was refused the total of an order that is open
C10_Witness ==
    /\ last.route = "total"
    /\ last.sub = "cook"
    /\ last.status = FORBIDDEN
    /\ \E o \in orders : o.number = last.arg /\ o.status = "Open"

-----------------------------------------------------------------------------
(* Order routes: claims C11 - C16, under SpecOrder *)

\* C11: total(order_number) on an Open order that has no items answers
\* success with total 0.
C11_TotalOfEmptyOrderIsZero ==
    (/\ last.route = "total"
     /\ last.ran
     /\ \E o \in orders :
           /\ o.number = last.arg
           /\ o.status = "Open"
           /\ ~\E it \in items : it.restaurant_order_id = o.id)
    => (last.status = OK /\ last.val = 0)

\* the total of an open order without items was asked for, while another
\* order holds items
C11_Witness ==
    /\ last.route = "total"
    /\ last.status = OK
    /\ \E o \in orders :
          /\ o.number = last.arg
          /\ o.status = "Open"
          /\ ~\E it \in items : it.restaurant_order_id = o.id
    /\ items # {}

\* C12: checkin(n) answers Conflict and inserts neither an order nor a
\* history row whenever an Open order with number n exists; when none
\* exists, also after an earlier order n was checked out, and storage
\* succeeds, it succeeds and creates a new Open order.
C12_CheckinConflictOrCreate ==
    [][(last'.route = "checkin" /\ last'.ran) =>
         IF \E o \in orders : o.number = last'.arg /\ o.status = "Open"
         THEN /\ last'.status = CONFLICT
              /\ orders' = orders
              /\ history' = history
         ELSE /\ last'.status = OK
              /\ orders \subseteq orders'
              /\ Cardinality(orders' \ orders) = 1
              /\ \A o \in orders' \ orders :
                    o.number = last'.arg /\ o.status = "Open"]_vars

\* a number whose earlier order was checked out has been checked in again
C12_Witness ==
    /\ last.route = "checkin"
    /\ last.status = OK
    /\ \E o \in orders : o.id = last.val /\ o.number = last.arg /\ o.status = "Open"
    /\ \E o \in orders : o.number = last.arg /\ o.status = "Closed"

\* C13: add_item on an existing Open order with both product_id and
\* product_per_kg_id set, or with neither set, answers Conflict, inserts no
\* OrderItem and changes no other state.
C13_AddItemBothOrNeitherIsConflict ==
    [][(/\ last'.route = "add_item"
        /\ last'.ran
        /\ \E o \in orders : o.number = last'.arg /\ o.status = "Open"
        /\ (last'.body.product_id = NullNum) <=> (last'.body.product_per_kg_id = NullNum))
       => (/\ last'.status = CONFLICT
           /\ UNCHANGED <<authVars, orderVars>>)]_vars

\* a body naming a product and a per-kg product was refused on an open
\* order that already holds an item
C13_Witness ==
    /\ last.route = "add_item"
    /\ last.status = CONFLICT
    /\ last.body.product_id # NullNum
    /\ last.body.product_per_kg_id # NullNum
    /\ \E o \in orders :
          /\ o.number = last.arg
          /\ o.status = "Open"
          /\ \E it \in items : it.restaurant_order_id = o.id

-----------------------------------------------------------------------------
(* User accounts: claim C14 under SpecUsers *)

\* C14: register with a username that already belongs to a user answers
\* Conflict "Username already exists.", inserts no User row and leaves every
\* existing user unchanged, whatever email the request carries.
C14_RegisterTakenUsernameIsConflict ==
    [][(/\ last'.route = "register"
        /\ last'.ran
        /\ \E u \in users : u.username = last'.arg)
       => (/\ last'.status = CONFLICT
           /\ last'.msg = "Username already exists."
           /\ users' = users
           /\ nextUserId' = nextUserId)]_vars

\* a taken username was refused in a request that carries the email of
\* another user
C14_Witness ==
    /\ last.route = "register"
    /\ last.status = CONFLICT
    /\ last.msg = "Username already exists."
    /\ \E u1, u2 \in users :
          /\ u1.username = last.arg
          /\ u2.email = last.body.email
          /\ u1.id # u2.id

-----------------------------------------------------------------------------
(* Order routes, continued: claims C15 - C16 under SpecOrder *)

\* C15: add_item leaves the stock of every Product unchanged, whether it
\* adds a fixed-price item, adds a per-kg item, or fails.
C15_AddItemLeavesStock ==
    [][last'.route = "add_item" => stock' = stock]_vars

\* C16: every successful checkin creates exactly one order, with status
\* Open, paid = false and total_amount = 0, and exactly one history row,
\* which references that order with status Open and note "Created"; no
\* request updates or deletes a history row.
C16_CheckinCreatesOrderAndHistory ==
    [][/\ history \subseteq history'
       /\ (last'.route = "checkin" /\ last'.status = OK) =>
             /\ orders \subseteq orders'
             /\ Cardinality(orders' \ orders) = 1
             /\ Cardinality(history' \ history) = 1
             /\ \A o \in orders' \ orders :
                   /\ o.number = last'.arg
                   /\ o.status = "Open"
                   /\ ~o.paid
                   /\ o.total_amount = 0
                   /\ \A h \in history' \ history :
                         /\ h.restaurant_order_id = o.id
                         /\ h.status = "Open"
                         /\ h.note = "Created"]_vars

\* a second order has just been checked in, after the first was checked out
C16_Witness ==
    /\ last.route = "checkin"
    /\ last.status = OK
    /\ Cardinality(history) = 2
    /\ \E h \in history : h.restaurant_order_id = last.val
    /\ \E o \in orders : o.status = "Closed"

-----------------------------------------------------------------------------
(* Deleting accounts: claim C17 under SpecDelete *)

\* SpecDelete: logins, refreshes and deletions, from a database that holds
\* the administrator, a waiter and a cook.
InitDelete ==
    /\ users = {User(1, "admin", "admin@x.io", "adminpw1", "Admin", TRUE),
                User(2, "ana", "staff@x.io", "secret22", "Waiter", TRUE),
                User(3, "bob", "bob@x.io", "secret22", "Cook", TRUE)}
    /\ nextUserId = 4
    /\ jwtList = {}
    /\ refreshTokens = {}
    /\ accessTokens = {}
    /\ EmptyOrderTables
    /\ now = 0
    /\ inflight = {}
    /\ last = NoRequest

NextDelete ==
    \/ \E username \in Usernames, password \in Passwords :
          login(username, password, TRUE, TRUE)
    \/ \E token \in refreshTokens : refresh(token)
    \/ \E sub \in accessTokens, username \in Usernames :
          delete_user(sub, username, TRUE)
    \/ \E sub \in accessTokens : get_users(sub)

SpecDelete == InitDelete /\ [][NextDelete]_vars

\* C17: deleting an existing user through /auth/delete removes the user's
\* row and the user's allow-list record, whether or not the user holds an
\* allow-list record at that moment.
C17_DeleteRemovesUserAndRecord ==
    [][(/\ last'.route = "delete"
        /\ last'.ran
        /\ \E u \in users : u.username = last'.arg)
       => \A u \in users :
             u.username = last'.arg =>
                /\ u \notin users'
                /\ ~\E r \in jwtList' : r.user_id = u.id]_vars

-----------------------------------------------------------------------------
(* Statistics: claim C18 under SpecStats *)

MaxDays == 2        \* days the clock advances

\* timedelta(days=1) and the distance from datetime(1900, 1, 1), in days
DayWindow      == 1
LifetimeWindow == 50000

\* WHERE Paid = 1 AND Entry_Time BETWEEN ? AND ?
PaidInWindow(entry_date, exit_date) ==
    {o \in orders : o.paid /\ entry_date <= o.entry_time /\ o.entry_time <= exit_date}

RECURSIVE AddAmount(_)
AddAmount(S) ==
    IF S = {} THEN 0
    ELSE LET o == CHOOSE x \in S : TRUE IN o.total_amount + AddAmount(S \ {o})

\* get_payment_summary: one row per payment method of the matched orders;
\* the function returns None when there is no row
get_payment_summary(entry_date, exit_date) ==
    LET matched == PaidInWindow(entry_date, exit_date)
    IN  {[Payment_Method |-> pm,
          Count |-> Cardinality({o \in matched : o.payment_method = pm}),
          Total_Sum |-> AddAmount({o \in matched : o.payment_method = pm})] :
            pm \in {o.payment_method : o \in matched}}

\* get_order_stats: aggregates without GROUP BY, so the query returns one
\* row whatever the matched set is, a row of NULLs when it is empty; the
\* function returns None only when there is no row.  Durations are left out.
get_order_stats(entry_date, exit_date) ==
    LET matched == PaidInWindow(entry_date, exit_date)
        amounts == {o.total_amount : o \in matched}
    IN  {[Total_Sum |-> IF matched = {} THEN NullNum ELSE AddAmount(matched),
          Max_Amount |-> IF matched = {} THEN NullNum
                         ELSE CHOOSE a \in amounts : \A b \in amounts : b <= a,
          Min_Amount |-> IF matched = {} THEN NullNum
                         ELSE CHOOSE a \in amounts : \A b \in amounts : a <= b]}

\* GET /statistics/order/day, /week, /month, /year, /lifetime: the window
\* goes back `window` days from now
get_order_status(sub, route, window) ==
    /\ sub \in accessTokens
    /\ UNCHANGED <<authVars, orderVars, now, inflight>>
    /\ LET before == now - window
           payment_summary == get_payment_summary(before, now)
           order_stats == get_order_stats(before, now)
       IN  IF RoleGate(sub, Roles) # OK
           THEN last' = Response(route, sub, before, NullStr, RoleGate(sub, Roles),
                          GateMsg(RoleGate(sub, Roles)), NullNum, FALSE)
           ELSE IF payment_summary = {} /\ order_stats = {}
           THEN last' = Response(route, sub, before, NullStr, NOT_FOUND,
                          "No have any stats.", NullNum, TRUE)
           ELSE last' = Response(route, sub, before, NullStr, OK,
                          "Success retried stats",
                          Cardinality(payment_summary), TRUE)

\* a day passes between two requests
Tick ==
    /\ now < MaxDays
    /\ now' = now + 1
    /\ UNCHANGED <<authVars, orderVars, last, inflight>>

\* SpecStats: the day and lifetime statistics asked for by the cook while
\* the waiter checks orders in and out and days pass.
InitStats == InitStaff /\ accessTokens = {"waiter", "cook"}

NextStats ==
    \/ \E n \in OrderNumbers : checkin("waiter", n, TRUE, TRUE)
    \/ \E n \in OrderNumbers, pm \in PaymentMethods : checkout("waiter", n, pm, TRUE)
    \/ get_order_status("cook", "stats_day", DayWindow)
    \/ get_order_status("cook", "stats_lifetime", LifetimeWindow)
    \/ Tick

SpecStats == InitStats /\ [][NextStats]_vars

\* C18: window_stats(start, end) answers NotFound when no paid order has its
\* entry_time in [start, end], and answers success whenever at least one
\* paid order does.
C18_StatsNotFoundIffNoPaidOrder ==
    [][(last'.route \in {"stats_day", "stats_lifetime"} /\ last'.ran) =>
         LET matched == {o \in orders : /\ o.paid
                                        /\ last'.arg <= o.entry_time
                                        /\ o.entry_time <= now}
         IN  IF matched = {} THEN last'.status = NOT_FOUND
             ELSE last'.status = OK]_vars

-----------------------------------------------------------------------------
(* Unique usernames and emails: claim C19 under SpecAccounts *)

\* SpecAccounts: administrators are registered, renamed, given another
\* email and deleted.  Access tokens for "admin" and "ana" are outstanding.
InitAccounts == InitUsers

NextAccounts ==
    \/ \E sub \in accessTokens, username \in {"admin", "ana"},
          body \in {b \in RegisterBodies : b.active /\ b.user_role = "Admin"} :
          register_user(sub, username, body, TRUE)
    \/ \E sub \in accessTokens, username \in {"admin", "ana"},
          body \in {b \in CredentialEdits \cup ProfileEdits :
                      /\ b.password = NullStr
                      /\ b.active = NullStr
                      /\ b.user_role = NullStr} :
          edit_user(sub, username, body, TRUE)
    \/ \E sub \in accessTokens, username \in {"admin", "ana"} :
          delete_user(sub, username, TRUE)

SpecAccounts == InitAccounts /\ [][NextAccounts]_vars

\* C19: no two User rows share a username and no two User rows share an
\* email.
C19_UsernamesAndEmailsAreUnique ==
    \A u1, u2 \in users :
        u1.id # u2.id => (u1.username # u2.username /\ u1.email # u2.email)

\* the rename of a user to the username of another user was refused
C19_Witness ==
    /\ last.route = "edit"
    /\ last.status = INTERNAL_SERVER_ERROR
    /\ \E u1, u2 \in users :
          /\ u1.id # u2.id
          /\ u1.username = last.arg
          /\ u2.username = last.body.new_username

-----------------------------------------------------------------------------
(* Concurrent logins: claim C20 under SpecLogins *)

\* refresh tokens created so far, handed out or still in a running login
Minted == Cardinality(refreshTokens) + Cardinality(inflight)

\* login, up to the creation of the tokens: a refused login is answered at
\* once, an accepted one goes on to the allow-list
login_start(username, password) ==
    /\ UNCHANGED <<authVars, orderVars, now>>
    /\ IF select_by_username(username) = {}
       THEN /\ last' = WrongLogin(username, password)
            /\ UNCHANGED inflight
       ELSE LET temp_user == CHOOSE u \in select_by_username(username) : TRUE
            IN  IF temp_user.active /\ verify_bcrypt_password(password, temp_user)
                THEN /\ Minted < MaxLogins
                     /\ inflight' = inflight \cup
                           {[route |-> "login", pc |-> "delete", sub |-> username,
                             arg |-> password, user_id |-> temp_user.id,
                             jti |-> Minted + 1]}
                     /\ UNCHANGED last
                ELSE /\ last' = WrongLogin(username, password)
                     /\ UNCHANGED inflight

\* login: db.jwt_list_repository.delete_by_user_id(temp_user.id)
login_delete(req) ==
    /\ req \in inflight
    /\ req.route = "login"
    /\ req.pc = "delete"
    /\ jwtList' = delete_by_user_id(jwtList, req.user_id)
    /\ inflight' = (inflight \ {req}) \cup {[req EXCEPT !.pc = "insert"]}
    /\ UNCHANGED <<users, nextUserId, refreshTokens, accessTokens, orderVars, now, last>>

\* login: db.jwt_list_repository.insert(jwt_item), result ignored, and the
\* response that hands the tokens out
login_insert(req) ==
    /\ req \in inflight
    /\ req.route = "login"
    /\ req.pc = "insert"
    /\ jwtList' = jwt_insert(jwtList, [user_id |-> req.user_id, jti |-> req.jti])
    /\ inflight' = inflight \ {req}
    /\ accessTokens' = accessTokens \cup {req.sub}
    /\ refreshTokens' = refreshTokens \cup
          {[jti |-> req.jti, sub |-> req.sub, user_id |-> req.user_id]}
    /\ last' = Response("login", req.sub, req.arg, NullStr, OK, "", req.jti, TRUE)
    /\ UNCHANGED <<users, nextUserId, orderVars, now>>

\* SpecLogins: logins that overlap, their allow-list steps interleaved in
\* every order, and refreshes in between.
InitLogins == InitDelete

NextLogins ==
    \/ \E username \in Usernames, password \in Passwords :
          login_start(username, password)
    \/ \E req \in inflight : login_delete(req)
    \/ \E req \in inflight : login_insert(req)
    \/ \E token \in refreshTokens : refresh(token)

SpecLogins == InitLogins /\ [][NextLogins]_vars

\* C20: whatever the interleaving of the allow-list delete and insert steps
\* of concurrent successful logins, once all logins have completed the
\* allow-list holds exactly one record for every user who logged in.
C20_OneRecordAfterConcurrentLogins ==
    inflight = {} =>
        \A t \in refreshTokens :
            Cardinality({r \in jwtList : r.user_id = t.user_id}) = 1

\* two overlapping logins of one user have completed, and the login that
\* answered last is not the one whose token the allow-list holds
C20_Witness ==
    /\ inflight = {}
    /\ last.route = "login"
    /\ last.status = OK
    /\ ~\E r \in jwtList : r.jti = last.val
    /\ \E t1, t2 \in refreshTokens :
          /\ t1.user_id = t2.user_id
          /\ t1.jti # t2.jti
          /\ \E r \in jwtList : r.jti = t1.jti

-----------------------------------------------------------------------------
(* Concurrent order requests: claims C21 - C22 under SpecRace *)

MaxInflight == 2    \* order requests served at the same time

\* INSERT INTO RestaurantOrder under a unique index on the open numbers
order_insert_unique_open(table, order) ==
    IF \E o \in table : o.number = order.number /\ o.status = "Open"
    THEN table
    ELSE table \cup {order}

\* RestaurantOrderRepository.insert: table RestaurantOrder has no
\* constraint on Number, the INSERT always adds the row
order_insert(table, order) == table \cup {order}

\* checkin, up to the exists-open test
checkin_check(sub, number) ==
    /\ sub \in accessTokens
    /\ UNCHANGED <<authVars, orderVars, now>>
    /\ IF ~Admitted("checkin", sub)
       THEN /\ last' = Denied("checkin", sub, number, NullStr)
            /\ UNCHANGED inflight
       ELSE IF exists_number_open(number)
       THEN /\ last' = Response("checkin", sub, number, NullStr, CONFLICT,
                        "Order number already exists and is currently open.",
                        NullNum, TRUE)
            /\ UNCHANGED inflight
       ELSE /\ Cardinality(inflight) < MaxInflight
            /\ inflight' = inflight \cup
                  {[route |-> "checkin", pc |-> "insert_order",
                    sub |-> sub, number |-> number, order_id |-> NullNum,
                    rid |-> CHOOSE i \in 1..(Cardinality(inflight) + 1) :
                               \A r \in inflight : r.rid # i]}
            /\ UNCHANGED last

\* checkin: db.restaurant_order_repository.insert(new_order)
checkin_insert_order(req) ==
    /\ req \in inflight
    /\ req.route = "checkin"
    /\ req.pc = "insert_order"
    /\ OrderRows < MaxRows
    /\ UNCHANGED <<authVars, history, items, stock, now>>
    /\ LET inserted == order_insert(orders, NewOrder(req.number))
       IN  IF inserted # orders
           THEN /\ orders' = inserted
                /\ inflight' = (inflight \ {req}) \cup
                      {[req EXCEPT !.pc = "insert_history",
                                   !.order_id = NewOrder(req.number).id]}
                /\ UNCHANGED last
           ELSE /\ UNCHANGED orders
                /\ inflight' = inflight \ {req}
                /\ last' = Response("checkin", req.sub, req.number, NullStr,
                             INTERNAL_SERVER_ERROR, "Failed to create the order.",
                             NullNum, TRUE)

\* checkin: db.order_status_history_repository.insert(order_history), and
\* the response
checkin_insert_history(req) ==
    /\ req \in inflight
    /\ req.route = "checkin"
    /\ req.pc = "insert_history"
    /\ UNCHANGED <<authVars, orders, items, stock, now>>
    /\ history' = history \cup
          {[id |-> Cardinality(history) + 1, restaurant_order_id |-> req.order_id,
            status |-> "Open", note |-> "Created"]}
    /\ inflight' = inflight \ {req}
    /\ last' = Response("checkin", req.sub, req.number, NullStr, OK,
                 "check in successfully.", req.order_id, TRUE)

\* add_item, up to the construction of the OrderItem: the open order and
\* the catalog row have been read
add_item_resolve(sub, number, body) ==
    /\ sub \in accessTokens
    /\ UNCHANGED <<authVars, orderVars, now>>
    /\ IF ~Admitted("add_item", sub)
       THEN /\ last' = Denied("add_item", sub, number, body)
            /\ UNCHANGED inflight
       ELSE IF select_by_number_open(number) = {}
       THEN /\ last' = Response("add_item", sub, number, body, NOT_FOUND,
                        "order number not found", NullNum, TRUE)
            /\ UNCHANGED inflight
       ELSE IF BothOrNeither(body)
       THEN /\ last' = Response("add_item", sub, number, body, CONFLICT,
                        "Either 'product_id' or 'product_per_kg_id' must be provided, but not both.",
                        NullNum, TRUE)
            /\ UNCHANGED inflight
       ELSE IF \/ (body.product_id # NullNum /\ body.product_id \notin ProductIds)
               \/ (body.product_per_kg_id # NullNum
                   /\ body.product_per_kg_id \notin ProductPerKgIds)
       THEN /\ last' = Response("add_item", sub, number, body, NOT_FOUND,
                        IF body.product_id # NullNum THEN "product not found"
                        ELSE "product per kg not found", NullNum, TRUE)
            /\ UNCHANGED inflight
       ELSE \E r_order \in select_by_number_open(number) :
            /\ Cardinality(inflight) < MaxInflight
            /\ inflight' = inflight \cup
                  {[rid |-> (CHOOSE i \in 1..(Cardinality(inflight) + 1) :
                               \A r \in inflight : r.rid # i),
                    route |-> "add_item", pc |-> "insert_item",
                    sub |-> sub, number |-> number, order_id |-> r_order.id,
                    body |-> body,
                    stock |-> IF body.product_id # NullNum
                              THEN stock[body.product_id] ELSE NullNum]}
            /\ UNCHANGED last

\* add_item: db.order_item_repository.insert(order_item), the stock update
\* of a fixed-price product from the Product row read before, and the
\* response
add_item_insert(req) ==
    /\ req \in inflight
    /\ req.route = "add_item"
    /\ req.pc = "insert_item"
    /\ OrderRows < MaxRows
    /\ UNCHANGED <<authVars, orders, history, now>>
    /\ items' = items \cup {NewItem(req.order_id, req.body)}
    /\ stock' = IF req.body.product_id # NullNum
                THEN [stock EXCEPT ![req.body.product_id] =
                                        req.stock - req.body.quantity]
                ELSE stock
    /\ inflight' = inflight \ {req}
    /\ last' = Response("add_item", req.sub, req.number, req.body, OK,
                 IF req.body.product_id # NullNum
                 THEN "Product added successfully and product updated"
                 ELSE "Product per kg added successfully",
                 Cardinality(items) + 1, TRUE)

\* SpecRace: check-ins and add_items of the waiter that overlap each other
\* and checkouts, every repository write a step of its own.
InitRace == InitOrder

NextRace ==
    \/ checkin_check("waiter", 1)
    \/ \E req \in inflight : checkin_insert_order(req)
    \/ \E req \in inflight : checkin_insert_history(req)
    \/ add_item_resolve("waiter", 1, ItemBody(1, NullNum, 1))
    \/ \E req \in inflight : add_item_insert(req)
    \/ checkout("waiter", 1, "Cash", TRUE)

SpecRace == InitRace /\ [][NextRace]_vars


\* C21: two check-ins of one number that both pass the exists-open test
\* before either inserts both succeed: the insert of a check-in that passed
\* the test adds an Open order of its number whatever the table holds, and
\* the request then answers 200 for that order.
C21_RacingCheckinsBothSucceed ==
    [][\A req \in inflight :
          (req.route = "checkin" /\ req \notin inflight') =>
             IF req.pc = "insert_order"
             THEN /\ \E o \in orders' \ orders :
                        o.number = req.number /\ o.status = "Open"
                  /\ \E r \in inflight' :
                        r.rid = req.rid /\ r.pc = "insert_history"
             ELSE /\ last'.route = "checkin"
                  /\ last'.status = OK
                  /\ \E o \in orders' :
                        /\ o.id = req.order_id
                        /\ o.id = last'.val
                        /\ o.number = req.number]_vars

\* two Open orders of one number, each with its history row, after both
\* check-ins have answered 200
C21_Witness ==
    /\ inflight = {}
    /\ last.route = "checkin"
    /\ last.status = OK
    /\ \E o1, o2 \in orders :
          /\ o1.id # o2.id
          /\ o1.number = o2.number
          /\ o1.status = "Open"
          /\ o2.status = "Open"
          /\ \E h1, h2 \in history :
                /\ h1.restaurant_order_id = o1.id
                /\ h2.restaurant_order_id = o2.id

\* C22: no OrderItem is inserted for an order after its checkout has
\* committed: every item a step inserts references an order that is Open.
C22_NoItemAfterCheckout ==
    [][\A it \in items' \ items :
          \A o \in orders :
             o.id = it.restaurant_order_id => o.status = "Open"]_vars

-----------------------------------------------------------------------------
(* Storage failures in the order routes: claim C23 under SpecFaults *)

\* SpecFaults: the waiter's check-ins and checkouts when any repository
\* write may fail (mariadb.Error, rolled back, reported as False).
InitFaults == InitOrder

NextFaults ==
    \/ \E n \in OrderNumbers, okOrder \in BOOLEAN, okHistory \in BOOLEAN :
          checkin("waiter", n, okOrder, okHistory)
    \/ \E n \in OrderNumbers, okUpdate \in BOOLEAN :
          checkout("waiter", n, "Cash", okUpdate)
    \/ \E n \in OrderNumbers : get_total("waiter", n)

SpecFaults == InitFaults /\ [][NextFaults]_vars

\* C23: a checkin whose order insert commits and whose history insert fails
\* answers 500 and leaves the Open order stored without a history row; a
\* later checkin of that number answers 409 and stores nothing.
C23_HalfCheckinBlocksNumber ==
    [][/\ (last'.route = "checkin" /\ orders' # orders /\ history' = history) =>
             /\ last'.status = INTERNAL_SERVER_ERROR
             /\ \E o \in orders' \ orders :
                   /\ orders' = orders \cup {o}
                   /\ o.number = last'.arg
                   /\ o.status = "Open"
                   /\ \A h \in history' : h.restaurant_order_id # o.id
       /\ (/\ last'.route = "checkin"
           /\ \E o \in orders :
                 /\ o.number = last'.arg
                 /\ o.status = "Open"
                 /\ \A h \in history : h.restaurant_order_id # o.id) =>
             /\ last'.status = CONFLICT
             /\ orders' = orders
             /\ history' = history]_vars

\* a checkin answered 409 because of an Open order that has no history row
C23_Witness ==
    /\ last.route = "checkin"
    /\ last.status = CONFLICT
    /\ \E o \in orders :
          /\ o.number = last.arg
          /\ o.status = "Open"
          /\ \A h \in history : h.restaurant_order_id # o.id

-----------------------------------------------------------------------------
(* Concurrent checkouts: claims C24 and C27 under SpecCheckouts *)

\* a checkout that marks the order Closed and leaves paid as it was
ClosedOrder_unpaid(r_order, payment_method) ==
    [r_order EXCEPT !.payment_method = payment_method,
                    !.status = "Closed",
                    !.exit_time = "now"]

\* checkout: the fields it sets on the order object it read
ClosedOrder(r_order, payment_method) ==
    [r_order EXCEPT !.payment_method = payment_method,
                    !.status = "Closed",
                    !.exit_time = "now",
                    !.paid = TRUE]

\* checkout, up to the changes on the order object: the open order has
\* been read
checkout_select(sub, number, payment_method) ==
    /\ sub \in accessTokens
    /\ UNCHANGED <<authVars, orderVars, now>>
    /\ IF ~Admitted("checkout", sub)
       THEN /\ last' = Denied("checkout", sub, number, payment_method)
            /\ UNCHANGED inflight
       ELSE IF select_by_number_open(number) = {}
       THEN /\ last' = Response("checkout", sub, number, payment_method,
                        NOT_FOUND, "order number not found", NullNum, TRUE)
            /\ UNCHANGED inflight
       ELSE \E r_order \in select_by_number_open(number) :
            /\ Cardinality(inflight) < MaxInflight
            /\ inflight' = inflight \cup
                  {[rid |-> (CHOOSE i \in 1..(Cardinality(inflight) + 1) :
                               \A r \in inflight : r.rid # i),
                    route |-> "checkout", pc |-> "calc_total",
                    sub |-> sub, number |-> number,
                    payment_method |-> payment_method,
                    r_order |-> ClosedOrder(r_order, payment_method)]}
            /\ UNCHANGED last

\* checkout: r_order.total_amount = calc_total(r_order.id)
checkout_calc_total(req) ==
    /\ req \in inflight
    /\ req.route = "checkout"
    /\ req.pc = "calc_total"
    /\ UNCHANGED <<authVars, orderVars, now, last>>
    /\ inflight' = (inflight \ {req}) \cup
          {[req EXCEPT !.pc = "update",
                       !.r_order.total_amount =
                           StoreTotalAmount(calc_total(req.r_order.id))]}

\* checkout: db.restaurant_order_repository.update(r_order), which writes
\* every column of the row with r_order's id, and the response
checkout_update(req) ==
    /\ req \in inflight
    /\ req.route = "checkout"
    /\ req.pc = "update"
    /\ UNCHANGED <<authVars, history, items, stock, now>>
    /\ orders' = {o \in orders : o.id # req.r_order.id} \cup {req.r_order}
    /\ inflight' = inflight \ {req}
    /\ last' = Response("checkout", req.sub, req.number, req.payment_method,
                 OK, "Checkout successfully", req.r_order.id, TRUE)

\* SpecCheckouts: checkouts of order number 1 by the waiter that overlap
\* each other and check-ins and add_items, every repository call of
\* checkout a step of its own.
InitCheckouts == InitOrder

NextCheckouts ==
    \/ checkin("waiter", 1, TRUE, TRUE)
    \/ add_item("waiter", 1, ItemBody(1, NullNum, 1), TRUE, TRUE)
    \/ \E pm \in PaymentMethods : checkout_select("waiter", 1, pm)
    \/ \E req \in inflight : checkout_calc_total(req)
    \/ \E req \in inflight : checkout_update(req)

SpecCheckouts == InitCheckouts /\ [][NextCheckouts]_vars

\* C24: every order is created with status Open; the only change of status
\* is Open to Closed, made by checkout; no order is ever Cancelled; and the
\* row of a Closed order is never modified again.
C24_StatusLifecycle ==
    [][/\ \A o \in orders' :
             /\ o.status \in {"Open", "Closed"}
             /\ (\A p \in orders : p.id # o.id) => o.status = "Open"
       /\ \A p \in orders :
             \E o \in orders' :
                /\ o.id = p.id
                /\ \/ o = p
                   \/ /\ p.status = "Open"
                      /\ o.status = "Closed"
                      /\ last'.route = "checkout"]_vars

\* C27: for every order, status = Closed iff paid iff exit_time is set iff
\* payment_method is set; and every Open order has total_amount 0.
C27_ClosedIffPaid ==
    \A o \in orders :
       /\ o.status \in {"Open", "Closed"}
       /\ (o.status = "Closed") <=> o.paid
       /\ o.paid <=> (o.exit_time # NullStr)
       /\ (o.exit_time # NullStr) <=> (o.payment_method # NullStr)
       /\ o.status = "Open" => o.total_amount = 0

\* the Closed, paid order of a checkout that has just answered 200, next to
\* an Open order that has an item
C27_Witness ==
    /\ last.route = "checkout"
    /\ last.status = OK
    /\ \E c, o \in orders :
          /\ c.id = last.val
          /\ c.status = "Closed"
          /\ c.paid
          /\ c.payment_method \in PaymentMethods
          /\ o.status = "Open"
          /\ \E it \in items : it.restaurant_order_id = o.id

-----------------------------------------------------------------------------
(* The refresh token of a successful login: claim C25 under SpecLogins *)

\* C25: whenever login answers 200 with refresh token R, the record of R is
\* in the allow-list when the response is returned, also when two logins of
\* one user overlap.
C25_LoginTokenIsListed ==
    [][(last'.route = "login" /\ last'.status = OK /\ last' # last) =>
          \E t \in jwtList' : t.jti = last'.val]_vars

-----------------------------------------------------------------------------
(* Failed edits: claim C26 under SpecAuth *)

\* C26: an edit that answers with an error leaves the target's User row
\* and the target's allow-list record unchanged.
C26_FailedEditChangesNothing ==
    [][(last'.route = "edit" /\ last'.status # OK /\ last' # last) =>
          /\ users' = users
          /\ jwtList' = jwtList]_vars

-----------------------------------------------------------------------------
(* Tokens and renamed accounts: claim C28 under SpecRename *)

\* SpecRename: the only account, admin, logs in, is renamed, and registers
\* accounts under the username it gave up, while the tokens issued before
\* are still presented.
InitRename ==
    /\ users = {User(1, "admin", "admin@x.io", "adminpw1", "Admin", TRUE)}
    /\ nextUserId = 2
    /\ jwtList = {}
    /\ refreshTokens = {}
    /\ accessTokens = {}
    /\ EmptyOrderTables
    /\ now = 0
    /\ inflight = {}
    /\ last = NoRequest

NextRename ==
    \/ \E username \in {"admin", "zed"}, password \in Passwords :
          login(username, password, TRUE, TRUE)
    \/ \E token \in refreshTokens : refresh(token)
    \/ \E sub \in accessTokens, username \in {"admin", "zed"},
          body \in CredentialEdits :
          edit_user(sub, username, body, TRUE)
    \/ \E sub \in accessTokens, body \in RegisterBodies :
          register_user(sub, "admin", body, TRUE)
    \/ \E sub \in accessTokens : get_users(sub)
    \/ \E sub \in accessTokens : get_total(sub, 1)

SpecRename == InitRename /\ [][NextRename]_vars

\* C28: a token never authorizes a request under the account of a user it
\* was not issued to: the account the gate admits a request under belongs
\* to a user that a login issued a token of the request's subject to (every
\* access token comes from such a login, directly or through its refresh
\* token).
C28_TokenAdmitsOnlyItsUser ==
    [][(/\ last'.route \in {"register", "edit", "get", "total"}
        /\ last'.ran
        /\ last' # last) =>
          \A u \in select_by_username(last'.sub) :
             \E t \in refreshTokens :
                t.sub = last'.sub /\ t.user_id = u.id]_vars

-----------------------------------------------------------------------------
(* Status history: claim C29 under SpecOrder *)

\* C29: for every order, the most recent history row that references it
\* records the order's current status, and every Closed order has a history
\* row with status Closed.
C29_HistoryFollowsStatus ==
    \A o \in orders :
       /\ \A h \in history :
             (/\ h.restaurant_order_id = o.id
              /\ \A g \in history :
                    g.restaurant_order_id = o.id => g.id <= h.id) =>
                h.status = o.status
       /\ o.status = "Closed" =>
             \E h \in history :
                h.restaurant_order_id = o.id /\ h.status = "Closed"

-----------------------------------------------------------------------------
(* Deactivated accounts: claim C30 under SpecDeactivate *)

\* SpecDeactivate: admin and ana log in, admin switches ana's active flag
\* through edit, and both keep presenting the tokens they hold.
InitDeactivate == InitAuth

NextDeactivate ==
    \/ \E username \in {"admin", "ana"}, password \in Passwords :
          login(username, password, TRUE, TRUE)
    \/ \E token \in refreshTokens : refresh(token)
    \/ \E sub \in accessTokens, active \in {"true", "false"} :
          edit_user(sub, "ana", EditBody(NullStr, NullStr, NullStr, active, NullStr),
                    TRUE)
    \/ \E sub \in accessTokens : get_total(sub, 1)
    \/ \E sub \in accessTokens : get_order_open_orders(sub)

SpecDeactivate == InitDeactivate /\ [][NextDeactivate]_vars

\* C30: while a user's active flag is false, login and refresh of that user
\* fail and the gate admits no request that bears an access token of that
\* user.
C30_InactiveUserIsLockedOut ==
    [][(/\ last' # last
        /\ \E u \in select_by_username(last'.sub) : ~u.active) =>
          /\ last'.route \in {"login", "refresh"} => last'.status # OK
          /\ last'.route \in {"total", "open_orders", "edit"} => ~last'.ran]_vars

====
